---- MODULE Spec2Model ----
(***************************************************************************)
(* A model of Source/Core/DiscIO/DiscExtractor.cpp: the extraction of      *)
(* files, directories and boot artifacts from a disc Volume to the host    *)
(* filesystem.                                                             *)
(*                                                                         *)
(* Volume bytes are not stored: a run of bytes read from the Volume is an  *)
(* extent [addr, len] (the bytes at addr .. addr+len-1), and the content   *)
(* of a host file is the sequence of the extents written to it, adjacent   *)
(* extents that continue each other merged, so that two contents are equal *)
(* exactly when they name the same Volume bytes in the same order.         *)
(* 32-bit and 64-bit header values are little-endian sequences of 16-bit   *)
(* limbs, so that u32 wrap-around and u64 widening are computed at their   *)
(* true widths.                                                            *)
(***************************************************************************)
EXTENDS Integers, Sequences, FiniteSets, TLC

VARIABLES
  host,      \* host filesystem: [dirs: set of paths, files: path -> content]
  call,      \* the call under way: the operation and its arguments
  last,      \* the last completed call: its inputs, return value and I/O log
  vol,       \* the Volume's header words, failing addresses and platform
  tree,      \* ExportDirectory: the FileInfo tree (pre-order entry list)
  recursive, \* ExportDirectory: the recursive argument
  stack,     \* ExportDirectory: the active invocations, innermost first
  events,    \* ExportDirectory: what this run did, in order: callbacks,
             \* folders made, files skipped and files exported
  run,       \* ExportDirectory: 0 before the first call, then 1, 2
  firstRun   \* ExportDirectory: host and events at the end of run 1

vars == <<host, call, last, vol, tree, recursive, stack, events, run, firstRun>>

----------------------------------------------------------------------------
(* Bounds of the model *)

\* The FileInfo trees have at most MaxEntries entries below the root.
MaxEntries == 3

\* ExportData sizes reach MaxChunks full chunks plus one byte.
MaxChunks == 2

\* A boot executable header has at most MaxSegs non-zero descriptors.
MaxSegs == 2

----------------------------------------------------------------------------
(* Helpers *)

Min(a, b) == IF a < b THEN a ELSE b

NoCall == [op |-> "none"]

\* "Limit read size to 128 MB": the 0x08000000 of ExportData.
ChunkCap == 134217728

----------------------------------------------------------------------------
(* Host filesystem and file contents *)

\* A path is a sequence of names; its parent is the path without the last.
Parent(path) == SubSeq(path, 1, Len(path) - 1)

OutDir == <<"out">>

EmptyHost == [dirs |-> {<<>>}, files |-> <<>>]

\* Appending len bytes read at Volume address addr to a file's content.
AppendBytes(content, addr, len) ==
  IF len = 0 THEN content
  ELSE IF content # <<>> /\ content[Len(content)].addr + content[Len(content)].len = addr
       THEN [content EXCEPT ![Len(content)].len = @ + len]
       ELSE Append(content, [addr |-> addr, len |-> len])

\* The content holding exactly the Volume's bytes [offset, offset+size).
RangeContent(offset, size) == AppendBytes(<<>>, offset, size)

\* File::Exists: a file or a directory is at the path.
Exists(h, path) == path \in DOMAIN h.files \/ path \in h.dirs

\* The host lets a file be opened for writing at path: its folder is there
\* and no directory has that name.
Openable(h, path) == Parent(path) \in h.dirs /\ path \notin h.dirs

\* File::IOFile f(export_filename, "wb"): the file is created, or truncated.
OpenWb(h, path) == [h EXCEPT !.files = (path :> <<>>) @@ @]

----------------------------------------------------------------------------
(* ExportData *)

\* No cap on the chunk: the whole remainder in one read.
ReadSizeNoCap(size) == size

\* read_size = min(size, 0x08000000)
ReadSize(size) == Min(size, ChunkCap)

\* offset += read_size
NextOffset(offset, read_size) == offset + read_size

\* The outcome the environment gives chunk k: "ok", "read" (volume.Read
\* fails) or "write" (f.WriteBytes fails).
ChunkOutcome(env, k) == IF env.fail.at = k THEN env.fail.kind ELSE "ok"

\* A failed chunk does not end the loop.
OnChunkFailureContinue(st, read_size) ==
  [st EXCEPT !.size = @ - read_size, !.offset = NextOffset(@, read_size), !.k = @ + 1]

\* return false, out of the while loop
OnChunkFailure(st, read_size) == [st EXCEPT !.done = TRUE, !.ret = FALSE]

\* One iteration of while (size): st is [content, size, offset, k, reads,
\* writes, done, ret]; content is what the open file f holds.
ChunkStep(st, env) ==
  LET read_size == ReadSize(st.size)
      outcome   == ChunkOutcome(env, st.k)
      rd == [addr |-> st.offset, len |-> read_size, ok |-> outcome # "read"]
      wr == [addr |-> st.offset, len |-> read_size, ok |-> outcome # "write"]
      afterRead == [st EXCEPT !.reads = Append(@, rd)]
  IN IF outcome = "read" THEN OnChunkFailure(afterRead, read_size)
     ELSE IF outcome = "write"
          THEN OnChunkFailure([afterRead EXCEPT !.writes = Append(@, wr)], read_size)
          ELSE [afterRead EXCEPT !.writes  = Append(@, wr),
                                 !.content = AppendBytes(@, st.offset, read_size),
                                 !.size    = @ - read_size,
                                 !.offset  = NextOffset(@, read_size),
                                 !.k       = @ + 1]

RECURSIVE ChunkLoop(_, _)
ChunkLoop(st, env) ==
  IF st.done THEN st
  ELSE IF st.size = 0 THEN [st EXCEPT !.done = TRUE, !.ret = TRUE]
  ELSE ChunkLoop(ChunkStep(st, env), env)

\* ExportData(volume, partition, offset, size, export_filename) on host h.
\* env.open: whether the host lets the destination be opened; env.fail: the
\* chunk the environment fails, if any.  The result is [ret, host, opened,
\* reads, writes].
ExportData(h, offset, size, export_filename, env) ==
  IF ~(env.open /\ Openable(h, export_filename))
  THEN [ret |-> FALSE, host |-> h, opened |-> FALSE, reads |-> <<>>, writes |-> <<>>]
  ELSE LET opened == OpenWb(h, export_filename)
           st0 == [content |-> opened.files[export_filename], size |-> size,
                   offset |-> offset, k |-> 0, reads |-> <<>>, writes |-> <<>>,
                   done |-> FALSE, ret |-> FALSE]
           st == ChunkLoop(st0, env)
       IN [ret |-> st.ret,
           host |-> [opened EXCEPT !.files[export_filename] = st.content],
           opened |-> TRUE, reads |-> st.reads, writes |-> st.writes]

\* The sizes of the ExportData calls: none, below the cap, the cap, and
\* spanning chunks.
DataSizes ==
  {k * ChunkCap + d : k \in 0..MaxChunks, d \in {0, 1}} \cup {ChunkCap - 1}

DataOffsets == {0, 9280}

DataFiles == {<<"out", "x.bin">>}

\* The environment fails no chunk.
NoFail == [at |-> -1, kind |-> "ok"]

\* What the environment may do to one ExportData call.
DataEnvs ==
  [open : BOOLEAN,
   fail : {NoFail} \cup [at : 0..MaxChunks, kind : {"read", "write"}]]

\* The ExportData calls of the model.
ExportDataCalls ==
  [op : {"ExportData"}, offset : DataOffsets, size : DataSizes, name : DataFiles,
   env : DataEnvs]

ExportDataCall ==
  /\ call.op = "ExportData" /\ last = NoCall
  /\ LET r == ExportData(host, call.offset, call.size, call.name, call.env)
     IN /\ host' = r.host
        /\ last' = [op |-> "ExportData", before |-> host, ret |-> r.ret,
                    opened |-> r.opened,
                    reads |-> r.reads, writes |-> r.writes]
  /\ UNCHANGED <<call, vol, tree, recursive, stack, events, run, firstRun>>

----------------------------------------------------------------------------
(* ReadFile *)

\* The null FileInfo pointer.
NullInfo == [null |-> TRUE, dir |-> FALSE, offset |-> 0, size |-> 0]

\* The FileInfo arguments: null, directories and files.
FileInfos ==
  {NullInfo} \cup [null : {FALSE}, dir : BOOLEAN, offset : {0, 4096}, size : {0, 1, 5, 8}]

\* The length without the min: the buffer's capacity.
ReadLengthCapacity(max_buffer_size, size, offset_in_file) == max_buffer_size

\* read_length = min(max_buffer_size, GetSize() - offset_in_file)
ReadLength(max_buffer_size, size, offset_in_file) ==
  Min(max_buffer_size, size - offset_in_file)

\* ReadFile(volume, partition, file_info, buffer, max_buffer_size,
\* offset_in_file); readOk: whether volume.Read succeeds.  The result is
\* [ret, reads, buffer].
ReadFile(file_info, max_buffer_size, offset_in_file, readOk) ==
  IF file_info.null
  THEN [ret |-> 0, reads |-> <<>>, buffer |-> <<>>]
  ELSE IF file_info.dir \/ offset_in_file >= file_info.size
  THEN [ret |-> 0, reads |-> <<>>, buffer |-> <<>>]
  ELSE LET read_length == ReadLength(max_buffer_size, file_info.size, offset_in_file)
           addr == file_info.offset + offset_in_file
           rd == [addr |-> addr, len |-> read_length, ok |-> readOk]
       IN IF ~readOk
          THEN [ret |-> 0, reads |-> <<rd>>, buffer |-> <<>>]
          ELSE [ret |-> read_length, reads |-> <<rd>>,
                buffer |-> RangeContent(addr, read_length)]

\* The ReadFile calls of the model.
ReadFileCalls ==
  [op : {"ReadFile"}, file_info : FileInfos, max_buffer_size : {0, 1, 4, 8, 16},
   offset_in_file : {0, 1, 4, 5, 8, 9}, readOk : BOOLEAN]

ReadFileCall ==
  /\ call.op = "ReadFile" /\ last = NoCall
  /\ LET r == ReadFile(call.file_info, call.max_buffer_size, call.offset_in_file,
                       call.readOk)
     IN last' = [op |-> "ReadFile", ret |-> r.ret, reads |-> r.reads,
                 buffer |-> r.buffer]
  /\ UNCHANGED <<host, call, vol, tree, recursive, stack, events, run, firstRun>>

----------------------------------------------------------------------------
(* The specification of the byte-range operations *)

NoFirstRun == [host |-> EmptyHost, events |-> <<>>]

NoVolume == [type |-> "GAMECUBE_DISC", words |-> <<>>, bad |-> {}]

\* The host before an ExportData call: the export folder, and in it either
\* nothing or an older file under the destination's name.
DataHosts ==
  {[dirs |-> {<<>>, OutDir}, files |-> <<>>]} \cup
  {[dirs |-> {<<>>, OutDir}, files |-> (name :> RangeContent(64, 7))] : name \in DataFiles}

InitData ==
  /\ host \in DataHosts
  /\ call \in ExportDataCalls \cup ReadFileCalls
  /\ last = NoCall
  /\ vol = NoVolume
  /\ tree = <<>>
  /\ recursive = FALSE
  /\ stack = <<>>
  /\ events = <<>>
  /\ run = 0
  /\ firstRun = NoFirstRun

NextData == ExportDataCall \/ ReadFileCall

SpecData == InitData /\ [][NextData]_vars

----------------------------------------------------------------------------
(* Claims about ExportData and ReadFile, checked under SpecData *)

\* The number of chunks a transfer of size bytes takes.
ChunkCount(size) == (size + ChunkCap - 1) \div ChunkCap

\* The environment failed nothing the call asked of it.
AllSucceeded ==
  /\ last.opened
  /\ \A i \in 1..Len(last.reads) : last.reads[i].ok
  /\ \A i \in 1..Len(last.writes) : last.writes[i].ok

\* The reads are at contiguous ascending offsets from call.offset, each of at
\* most the cap, all but the last of exactly the cap, and they end at
\* call.offset + call.size.
ChunkReadsInOrder ==
  LET rs == last.reads
      n  == Len(rs)
  IN /\ (n = 0) = (call.size = 0)
     /\ \A i \in 1..n : rs[i].len >= 1 /\ rs[i].len <= ChunkCap
     /\ \A i \in 1..(n - 1) : rs[i].len = ChunkCap /\ rs[i + 1].addr = rs[i].addr + rs[i].len
     /\ n > 0 => rs[1].addr = call.offset /\ rs[n].addr + rs[n].len = call.offset + call.size

\* C1: when the destination opens and every Volume read and host write
\* succeeds, ExportData returns true, the host file holds exactly the
\* Volume's bytes [offset, offset+size) in order, whatever the file held
\* before, and the chunk reads are contiguous, ascending, at most the cap
\* each, only the last one shorter.
C1_ExportDataExact ==
  (last.op = "ExportData" /\ AllSucceeded) =>
    /\ last.ret = TRUE
    /\ call.name \in DOMAIN host.files
    /\ host.files[call.name] = RangeContent(call.offset, call.size)
    /\ \A p \in DOMAIN host.files : p # call.name => host.files[p] = last.before.files[p]
    /\ last.writes = last.reads
    /\ ChunkReadsInOrder

\* A transfer of several chunks with a shorter last chunk, over an older
\* file of the same name, has succeeded.
C1_Witness ==
  /\ last.op = "ExportData" /\ last.ret = TRUE
  /\ Len(last.reads) = MaxChunks + 1
  /\ last.reads[Len(last.reads)].len = 1
  /\ call.name \in DOMAIN last.before.files
  /\ call.offset > 0

\* C10: when the destination cannot be opened ExportData returns false with
\* no Volume read and the host untouched; when chunk k fails it returns
\* false, the failed read or write is the last I/O of the call, and the host
\* file holds exactly chunks 0..k-1, a proper prefix of the requested range.
C10_FailureLeavesPrefix ==
  last.op = "ExportData" =>
    LET k == call.env.fail.at
        failed == k \in 0..(ChunkCount(call.size) - 1)
    IN /\ ~last.opened =>
            last.ret = FALSE /\ last.reads = <<>> /\ last.writes = <<>> /\ host = last.before
       /\ (last.opened /\ failed) =>
            /\ last.ret = FALSE
            /\ Len(last.reads) = k + 1
            /\ Len(last.writes) = IF call.env.fail.kind = "read" THEN k ELSE k + 1
            /\ \A i \in 1..k : last.reads[i].ok /\ last.writes[i].ok
            /\ host.files[call.name] = RangeContent(call.offset, k * ChunkCap)
            /\ k * ChunkCap < call.size
       /\ last.ret = (last.opened /\ ~failed)

\* The write of the second chunk failed: the first chunk is in the file.
C10_Witness ==
  /\ last.op = "ExportData" /\ last.ret = FALSE /\ last.opened
  /\ Len(last.writes) = 2 /\ ~last.writes[2].ok
  /\ host.files[call.name] = RangeContent(call.offset, ChunkCap)

\* C6: ReadFile returns 0 with no Volume read for a null FileInfo, a
\* directory, or an offset at or past the size; otherwise it issues exactly
\* one Volume read at (file offset + offset_in_file) of length
\* min(capacity, size - offset_in_file) and returns that length, or 0 when
\* the read fails.
C6_ReadFileAllOrNothing ==
  last.op = "ReadFile" =>
    LET f == call.file_info
        o == call.offset_in_file
        want == IF call.max_buffer_size <= f.size - o THEN call.max_buffer_size
                ELSE f.size - o
    IN IF f.null \/ f.dir \/ o >= f.size
       THEN last.ret = 0 /\ last.reads = <<>>
       ELSE /\ last.reads = <<[addr |-> f.offset + o, len |-> want, ok |-> call.readOk]>>
            /\ last.ret = IF call.readOk THEN want ELSE 0
            /\ call.readOk => last.buffer = RangeContent(f.offset + o, want)

\* A read bounded by the rest of the file, not by the buffer, has returned.
C6_Witness ==
  /\ last.op = "ReadFile" /\ last.ret > 0
  /\ last.ret < call.max_buffer_size
  /\ call.offset_in_file > 0

----------------------------------------------------------------------------
(* 32-bit and 64-bit unsigned values *)

\* A value is a little-endian sequence of limbs, each in 0..Limb-1: two
\* limbs are a u32, four a u64.  All operations keep the operand's length,
\* that is, they wrap at the operand's width, as the machine's do.
Limb == 65536

\* The u32 with high half hi and low half lo.
U32(hi, lo) == <<lo, hi>>

Zero32 == U32(0, 0)

\* a zero-extended to n limbs (static_cast to a wider unsigned type).
Widen(a, n) == [i \in 1..n |-> IF i <= Len(a) THEN a[i] ELSE 0]

\* a + b at the width of a.
AddN(a, b) ==
  LET n == Len(a)
      carry[i \in 0..n] ==
        IF i = 0 THEN 0 ELSE (a[i] + b[i] + carry[i - 1]) \div Limb
  IN [i \in 1..n |-> (a[i] + b[i] + carry[i - 1]) % Limb]

\* a << shift at the width of a, for a shift below 16.
ShlN(a, shift) ==
  LET n == Len(a)
      carry[i \in 0..n] ==
        IF i = 0 THEN 0 ELSE (a[i] * (2 ^ shift) + carry[i - 1]) \div Limb
  IN [i \in 1..n |-> (a[i] * (2 ^ shift) + carry[i - 1]) % Limb]

\* a < b, for values of one width.
Less(a, b) ==
  \E i \in 1..Len(a) : a[i] < b[i] /\ \A j \in (i + 1)..Len(a) : a[j] = b[j]

\* The value as an integer.
RECURSIVE ToInt(_)
ToInt(a) == IF a = <<>> THEN 0 ELSE Head(a) + Limb * ToInt(Tail(a))

\* std::max(a, b)
Max32(a, b) == IF Less(a, b) THEN b ELSE a

----------------------------------------------------------------------------
(* The Volume's typed reads and the boot metadata *)

Platforms == {"GAMECUBE_DISC", "WII_DISC", "WII_WAD", "ELF_DOL"}

\* IsDisc(volume.GetVolumeType())
IsDisc(type) == type \in {"GAMECUBE_DISC", "WII_DISC"}

\* An empty std::optional, and one holding val.
Nothing == [has |-> FALSE, val |-> <<>>]

Some(val) == [has |-> TRUE, val |-> val]

\* volume.ReadSwapped<u32>(addr, partition): nothing when the read fails,
\* else the word at addr (zero where the model's volume sets none).
ReadSwapped32(v, addr) ==
  IF addr \in v.bad THEN Nothing
  ELSE IF addr \in DOMAIN v.words THEN Some(v.words[addr]) ELSE Some(Zero32)

\* The shift done in 32 bits, widened after: the high bits are lost.
ShiftThenWiden(val, shift) == Widen(ShlN(val, shift), 4)

\* static_cast<u64>(*offset) << offset_shift
WidenThenShift(val, shift) == ShlN(Widen(val, 4), shift)

\* GetBootDOLOffset(volume, partition): an optional u64.  1056 is 0x420.
GetBootDOLOffset(v) ==
  IF ~IsDisc(v.type) THEN Nothing
  ELSE LET offset == ReadSwapped32(v, 1056)
           offset_shift == IF v.type = "WII_DISC" THEN 2 ELSE 0
       IN IF offset.has THEN Some(WidenThenShift(offset.val, offset_shift))
          ELSE Nothing

\* The segment's end alone: the running maximum is dropped.
KeepSegmentEnd(offset, size, dol_size) == AddN(offset, size)

\* dol_size = std::max(*offset + *size, dol_size), in u32
FoldSegment(offset, size, dol_size) == Max32(AddN(offset, size), dol_size)

\* for (u8 i = from; i < count; i++) over the descriptors whose offset fields
\* start at offsets and whose size fields start at sizes: an optional u32.
RECURSIVE SegmentLoop(_, _, _, _, _, _)
SegmentLoop(v, offsets, sizes, i, count, dol_size) ==
  IF i >= count THEN Some(dol_size)
  ELSE LET offset == ReadSwapped32(v, offsets + i * 4)
           size   == ReadSwapped32(v, sizes + i * 4)
       IN IF ~offset.has \/ ~size.has THEN Nothing
          ELSE SegmentLoop(v, offsets, sizes, i + 1, count,
                           FoldSegment(offset.val, size.val, dol_size))

\* GetBootDOLSize(volume, partition, dol_offset): an optional u32.  The
\* tables are at +0x00 and +0x90 (144), and at +0x1c (28) and +0xac (172).
GetBootDOLSize(v, dol_offset) ==
  IF ~IsDisc(v.type) THEN Nothing
  ELSE LET code == SegmentLoop(v, dol_offset + 0, dol_offset + 144, 0, 7, Zero32)
       IN IF ~code.has THEN Nothing
          ELSE SegmentLoop(v, dol_offset + 28, dol_offset + 172, 0, 11, code.val)

----------------------------------------------------------------------------
(* The specification of the boot metadata queries *)

\* The 18 segment descriptors of a DOL header: 7 of code, 11 of data.
Descriptors == [table : {"code"}, i : 0..6] \cup [table : {"data"}, i : 0..10]

\* The header's field holding descriptor d's file offset: the code table is
\* at +0x00 and the data table at +0x1C, four bytes a descriptor.
OffsetField(dol_offset, d) ==
  dol_offset + (IF d.table = "code" THEN 0 ELSE 28) + d.i * 4

\* The field holding descriptor d's size: at +0x90 and at +0xAC.
SizeField(dol_offset, d) ==
  dol_offset + (IF d.table = "code" THEN 144 ELSE 172) + d.i * 4

HeaderFields(dol_offset) ==
  {OffsetField(dol_offset, d) : d \in Descriptors} \cup
  {SizeField(dol_offset, d) : d \in Descriptors}

\* The raw 32-bit values of the model: 0, 0x50, 0x100, 0x80000000,
\* 0xFFFFFFFF.
U32Samples == {U32(0, 0), U32(0, 80), U32(0, 256), U32(32768, 0), U32(65535, 65535)}

\* The <<offset, size>> pairs of the non-zero descriptors: a small segment,
\* one whose end passes 2^32 - 1, and one whose end is exactly 2^32 - 1.
DescSamples ==
  { <<U32(0, 256), U32(0, 80)>>,
    <<U32(65535, 65535), U32(0, 2)>>,
    <<U32(32768, 0), U32(32767, 65535)>> }

\* The place of descriptor d among the 18: the code table, then the data.
DescriptorIndex(d) == IF d.table = "code" THEN d.i ELSE 7 + d.i

\* The sets of at most n descriptors, each built in the order of the tables.
RECURSIVE DescriptorSets(_)
DescriptorSets(n) ==
  IF n = 0 THEN {{}}
  ELSE LET smaller == DescriptorSets(n - 1)
       IN smaller \cup
          {T \cup {d} : <<T, d>> \in
             {x \in smaller \X Descriptors :
                \A e \in x[1] : DescriptorIndex(e) < DescriptorIndex(x[2])}}

\* The header words giving each descriptor d of DOMAIN f the pair f[d].
HeaderWords(dol_offset, f) ==
  LET fields == {OffsetField(dol_offset, d) : d \in DOMAIN f} \cup
                {SizeField(dol_offset, d) : d \in DOMAIN f}
  IN [a \in fields |->
        LET d == CHOOSE e \in DOMAIN f :
                   a \in {OffsetField(dol_offset, e), SizeField(dol_offset, e)}
        IN IF a = OffsetField(dol_offset, d) THEN f[d][1] ELSE f[d][2]]

\* The volumes of a GetBootDOLOffset call: every platform, every sample in
\* the field at 0x420, the read of it working or failing.
OffsetVolumes ==
  {[type |-> t, words |-> (1056 :> w), bad |-> b] :
     t \in Platforms, w \in U32Samples, b \in {{}, {1056}}}

\* The platform and the failing reads of a GetBootDOLSize call on a header
\* whose non-zero descriptors are T: a GameCube disc whose reads work for
\* every header; for the headers of at most one non-zero descriptor also
\* every other platform, and each one field of a disc's header failing.
SizeSettings(dol_offset, T) ==
  {[type |-> "GAMECUBE_DISC", bad |-> {}]} \cup
  (IF Cardinality(T) > 1 THEN {}
   ELSE [type : Platforms, bad : {{}}] \cup
        [type : {"GAMECUBE_DISC", "WII_DISC"},
         bad : {{a} : a \in HeaderFields(dol_offset)}])

\* The volumes of a GetBootDOLSize call: a header of at most MaxSegs
\* non-zero descriptors, each with a pair of DescSamples, under each of its
\* settings.
IsSizeVolume(v, dol_offset) ==
  \E T \in DescriptorSets(MaxSegs) :
    \E f \in [T -> DescSamples], s \in SizeSettings(dol_offset, T) :
      v = [type |-> s.type, words |-> HeaderWords(dol_offset, f), bad |-> s.bad]

BootCalls ==
  [op : {"GetBootDOLOffset"}] \cup [op : {"GetBootDOLSize"}, dol_offset : {256, 8192}]

InitBoot ==
  /\ call \in BootCalls
  /\ IF call.op = "GetBootDOLOffset" THEN vol \in OffsetVolumes
     ELSE IsSizeVolume(vol, call.dol_offset)
  /\ host = EmptyHost
  /\ last = NoCall
  /\ tree = <<>>
  /\ recursive = FALSE
  /\ stack = <<>>
  /\ events = <<>>
  /\ run = 0
  /\ firstRun = NoFirstRun

GetBootDOLOffsetCall ==
  /\ call.op = "GetBootDOLOffset" /\ last = NoCall
  /\ last' = [op |-> "GetBootDOLOffset", ret |-> GetBootDOLOffset(vol)]
  /\ UNCHANGED <<host, call, vol, tree, recursive, stack, events, run, firstRun>>

GetBootDOLSizeCall ==
  /\ call.op = "GetBootDOLSize" /\ last = NoCall
  /\ last' = [op |-> "GetBootDOLSize", ret |-> GetBootDOLSize(vol, call.dol_offset)]
  /\ UNCHANGED <<host, call, vol, tree, recursive, stack, events, run, firstRun>>

NextBoot == GetBootDOLOffsetCall \/ GetBootDOLSizeCall

SpecBoot == InitBoot /\ [][NextBoot]_vars

----------------------------------------------------------------------------
(* Claims about the boot metadata queries, checked under SpecBoot *)

\* Descriptor d's offset and size as the volume holds them.
DescOffset(d) ==
  IF OffsetField(call.dol_offset, d) \in DOMAIN vol.words
  THEN vol.words[OffsetField(call.dol_offset, d)] ELSE Zero32

DescSize(d) ==
  IF SizeField(call.dol_offset, d) \in DOMAIN vol.words
  THEN vol.words[SizeField(call.dol_offset, d)] ELSE Zero32

\* offset + size of descriptor d without wrap-around, in 48 bits.
ExactEnd(d) == AddN(Widen(DescOffset(d), 3), Widen(DescSize(d), 3))

\* offset + size of descriptor d in 32-bit unsigned arithmetic.
WrappedEnd(d) == AddN(DescOffset(d), DescSize(d))

\* When GetBootDOLSize gives a value at all: a disc whose 36 descriptor
\* fields all read.
SizeReadable == IsDisc(vol.type) /\ vol.bad \cap HeaderFields(call.dol_offset) = {}

\* C7 as claimed: the result is the maximum of the exact sums offset + size
\* of the 18 descriptors, also where a sum passes 2^32 - 1.
C7_ExactMaximum ==
  (last.op = "GetBootDOLSize" /\ SizeReadable) =>
    /\ last.ret.has
    /\ \E d \in Descriptors : Widen(last.ret.val, 3) = ExactEnd(d)
    /\ \A d \in Descriptors : ~Less(Widen(last.ret.val, 3), ExactEnd(d))

\* C7 as amended: the result is the maximum over the 18 descriptors of
\* (offset + size) mod 2^32; an all-zero descriptor contributes 0; there is
\* no value on a non-disc medium or when one of the 36 reads fails.
C7_WrappedMaximum ==
  last.op = "GetBootDOLSize" =>
    IF SizeReadable
    THEN /\ last.ret.has
         /\ \E d \in Descriptors : last.ret.val = WrappedEnd(d)
         /\ \A d \in Descriptors : ~Less(last.ret.val, WrappedEnd(d))
    ELSE ~last.ret.has

\* A header with a data descriptor whose end passes 2^32 - 1 and a smaller
\* code descriptor has been sized: the result is the code descriptor's end.
C7_Witness ==
  /\ last.op = "GetBootDOLSize" /\ last.ret.has
  /\ last.ret.val = U32(0, 336)
  /\ \E d \in Descriptors : d.table = "data" /\ WrappedEnd(d) = U32(0, 1)
  /\ \E d \in Descriptors : d.table = "code" /\ WrappedEnd(d) = U32(0, 336)

\* v + v + v + v in 64 bits.
FourTimes(v) ==
  LET w == Widen(v, 4) IN AddN(AddN(w, w), AddN(w, w))

\* C8: GetBootDOLOffset gives no value on a non-disc medium and when the
\* read at 0x420 fails; on a Wii disc it gives 4 * v in 64 bits for the raw
\* value v, nothing lost, and on a GameCube disc v itself.
C8_BootOffset ==
  last.op = "GetBootDOLOffset" =>
    IF ~IsDisc(vol.type) \/ 1056 \in vol.bad
    THEN ~last.ret.has
    ELSE /\ last.ret.has
         /\ last.ret.val = IF vol.type = "WII_DISC" THEN FourTimes(vol.words[1056])
                           ELSE Widen(vol.words[1056], 4)

\* The raw value 0xFFFFFFFF on a Wii disc has given 0x3FFFFFFFC.
C8_Witness ==
  /\ last.op = "GetBootDOLOffset" /\ last.ret.has
  /\ vol.type = "WII_DISC" /\ vol.words[1056] = U32(65535, 65535)
  /\ last.ret.val = <<65532, 65535, 3, 0>>

----------------------------------------------------------------------------
(* ExportApploader, ExportDOL, ExportSystemData *)

\* An exporter's return before it reaches ExportData.
Refused(h) ==
  [ret |-> FALSE, host |-> h, opened |-> FALSE, reads |-> <<>>, writes |-> <<>>]

\* ExportApploader(volume, partition, export_filename).  9280 is 0x2440, the
\* size fields are at +0x14 and +0x18, and header_size is 0x20.
ExportApploader(h, v, export_filename, env) ==
  IF ~IsDisc(v.type) THEN Refused(h)
  ELSE LET apploader_size == ReadSwapped32(v, 9280 + 20)
           trailer_size   == ReadSwapped32(v, 9280 + 24)
           header_size    == U32(0, 32)
       IN IF ~apploader_size.has \/ ~trailer_size.has THEN Refused(h)
          ELSE ExportData(h, 9280,
                 ToInt(AddN(apploader_size.val, AddN(trailer_size.val, header_size))),
                 export_filename, env)

\* ExportDOL(volume, partition, export_filename)
ExportDOL(h, v, export_filename, env) ==
  IF ~IsDisc(v.type) THEN Refused(h)
  ELSE LET dol_offset == GetBootDOLOffset(v)
       IN IF ~dol_offset.has THEN Refused(h)
          ELSE LET dol_size == GetBootDOLSize(v, ToInt(dol_offset.val))
               IN IF ~dol_size.has THEN Refused(h)
                  ELSE ExportData(h, ToInt(dol_offset.val), ToInt(dol_size.val),
                                  export_filename, env)

\* success = ExportApploader(...) && ExportDOL(...): the second export is
\* not made when the first fails.
ExportSystemDataShortCircuit(h, v, export_folder, envs) ==
  LET a == ExportApploader(h, v, Append(export_folder, "apploader.img"), envs.apploader)
      d == ExportDOL(a.host, v, Append(export_folder, "boot.dol"), envs.dol)
  IN IF a.ret
     THEN [ret |-> d.ret, host |-> d.host,
           calls |-> <<[fn |-> "ExportApploader", ret |-> a.ret],
                       [fn |-> "ExportDOL", ret |-> d.ret]>>]
     ELSE [ret |-> FALSE, host |-> a.host,
           calls |-> <<[fn |-> "ExportApploader", ret |-> a.ret]>>]

\* ExportSystemData(volume, partition, export_folder): the result is [ret,
\* host, calls], calls being the exports made, in order, with their returns.
ExportSystemData(h, v, export_folder, envs) ==
  LET a == ExportApploader(h, v, Append(export_folder, "apploader.img"), envs.apploader)
      d == ExportDOL(a.host, v, Append(export_folder, "boot.dol"), envs.dol)
  IN [ret |-> a.ret /\ d.ret, host |-> d.host,
      calls |-> <<[fn |-> "ExportApploader", ret |-> a.ret],
                  [fn |-> "ExportDOL", ret |-> d.ret]>>]

\* Where the boot executable of a volume of the model starts: the raw field
\* 0x800, shifted on a Wii disc.
SystemDolOffset(type) == IF type = "WII_DISC" THEN 8192 ELSE 2048

\* The volumes of an ExportSystemData call: an apploader of 0x100 bytes with
\* a trailer of 0 or 0x40, a boot executable with one segment of 0x50 bytes
\* at 0x100, and at most one of the header fields failing to read.
SystemVolumes ==
  {[type |-> t,
    words |-> (9300 :> U32(0, 256)) @@ (9304 :> trailer) @@ (1056 :> U32(0, 2048)) @@
              HeaderWords(SystemDolOffset(t), (d :> <<U32(0, 256), U32(0, 80)>>)),
    bad |-> b] :
     t \in {"GAMECUBE_DISC", "WII_DISC", "WII_WAD"},
     trailer \in {U32(0, 0), U32(0, 64)},
     d \in {[table |-> "code", i |-> 0], [table |-> "data", i |-> 10]},
     b \in {{}, {9300}, {9304}, {1056}, {2048}, {8192}, {2048 + 212}, {8192 + 212}}}

\* What the environment may do to each of the two exports.
SystemEnvs ==
  LET one == [open : BOOLEAN,
              fail : {NoFail, [at |-> 0, kind |-> "read"], [at |-> 0, kind |-> "write"]}]
  IN [apploader : one, dol : one]

SystemCalls == [op : {"ExportSystemData"}, export_folder : {OutDir}, envs : SystemEnvs]

InitSystem ==
  /\ call \in SystemCalls
  /\ vol \in SystemVolumes
  /\ host = [EmptyHost EXCEPT !.dirs = @ \cup {OutDir}]
  /\ last = NoCall
  /\ tree = <<>>
  /\ recursive = FALSE
  /\ stack = <<>>
  /\ events = <<>>
  /\ run = 0
  /\ firstRun = NoFirstRun

ExportSystemDataCall ==
  /\ call.op = "ExportSystemData" /\ last = NoCall
  /\ LET r == ExportSystemData(host, vol, call.export_folder, call.envs)
     IN /\ host' = r.host
        /\ last' = [op |-> "ExportSystemData", before |-> host, ret |-> r.ret,
                    calls |-> r.calls]
  /\ UNCHANGED <<call, vol, tree, recursive, stack, events, run, firstRun>>

NextSystem == ExportSystemDataCall

SpecSystem == InitSystem /\ [][NextSystem]_vars

----------------------------------------------------------------------------
(* Claims about ExportSystemData, checked under SpecSystem *)

\* The environment lets the apploader export through: a disc, both size
\* fields readable, the destination opening, no chunk failing.
ApploaderCanSucceed ==
  /\ IsDisc(vol.type)
  /\ vol.bad \cap {9300, 9304} = {}
  /\ call.envs.apploader.open
  /\ call.envs.apploader.fail = NoFail

\* The environment lets the boot executable export through.
DolCanSucceed ==
  /\ IsDisc(vol.type)
  /\ 1056 \notin vol.bad
  /\ vol.bad \cap HeaderFields(SystemDolOffset(vol.type)) = {}
  /\ call.envs.dol.open
  /\ call.envs.dol.fail = NoFail

ApploaderImg == Append(call.export_folder, "apploader.img")

BootDol == Append(call.export_folder, "boot.dol")

\* The apploader image: 0x20 of header, the apploader and its trailer, from
\* 0x2440.
ApploaderContent ==
  RangeContent(9280, 32 + ToInt(vol.words[9300]) + ToInt(vol.words[9304]))

\* The boot executable: 0x150 bytes from where it starts.
DolContent == RangeContent(SystemDolOffset(vol.type), 336)

\* C5: ExportSystemData makes the apploader export and then the boot DOL
\* export whatever the first returns; it returns true exactly when both
\* succeed; when exactly one fails the other's file is in export_folder with
\* its full content.
C5_BothAttempted ==
  last.op = "ExportSystemData" =>
    /\ Len(last.calls) = 2
    /\ last.calls[1] = [fn |-> "ExportApploader", ret |-> ApploaderCanSucceed]
    /\ last.calls[2] = [fn |-> "ExportDOL", ret |-> DolCanSucceed]
    /\ last.ret = (ApploaderCanSucceed /\ DolCanSucceed)
    /\ ApploaderCanSucceed =>
         ApploaderImg \in DOMAIN host.files /\ host.files[ApploaderImg] = ApploaderContent
    /\ DolCanSucceed =>
         BootDol \in DOMAIN host.files /\ host.files[BootDol] = DolContent

\* The apploader export failed on an unreadable size field and boot.dol was
\* written all the same.
C5_Witness ==
  /\ last.op = "ExportSystemData" /\ last.ret = FALSE
  /\ 9304 \in vol.bad
  /\ last.calls[1].ret = FALSE
  /\ BootDol \in DOMAIN host.files /\ host.files[BootDol] = DolContent
  /\ ApploaderImg \notin DOMAIN host.files

----------------------------------------------------------------------------
(* ExportFile and ExportDirectory *)

\* ExportFile(volume, partition, file_info, export_filename)
ExportFile(h, file_info, export_filename, env) ==
  IF file_info.null \/ file_info.dir THEN Refused(h)
  ELSE ExportData(h, file_info.offset, file_info.size, export_filename, env)

\* The prefixes of a path, the empty one among them.
Prefixes(path) == {SubSeq(path, 1, k) : k \in 0..Len(path)}

\* File::CreateFullPath(export_folder + '/'): every folder along the path is
\* made, up to the first name a file already has.
CreateFullPath(h, path) ==
  LET clear == {q \in Prefixes(path) :
                  \A r \in Prefixes(q) : r \notin DOMAIN h.files}
  IN [h EXCEPT !.dirs = @ \cup clear]

\* A FileInfo of the tree: a file, or a directory with its children.
FileNode(name, offset, size) ==
  [null |-> FALSE, name |-> name, dir |-> FALSE, offset |-> offset, size |-> size,
   children |-> <<>>]

DirNode(name, children) ==
  [null |-> FALSE, name |-> name, dir |-> TRUE, offset |-> 0, size |-> 0,
   children |-> children]

\* The files of the trees: one of five bytes and an empty one.
TreeFiles == {FileNode("a", 4096, 5), FileNode("b", 8192, 0)}

\* The names of the trees' directories; "a" is also a file's name.
TreeDirNames == {"a", "d"}

\* Forest(n): the child lists with n entries in all, at any depth;
\* Subtree(n): the entries that with their descendants are n.
RECURSIVE Forest(_), Subtree(_)
Forest(n) ==
  IF n = 0 THEN {<<>>}
  ELSE UNION {{<<x>> \o rest : x \in Subtree(k), rest \in Forest(n - k)} : k \in 1..n}

Subtree(n) ==
  (IF n = 1 THEN TreeFiles ELSE {}) \cup
  {DirNode(name, c) : name \in TreeDirNames, c \in Forest(n - 1)}

Trees == UNION {Forest(n) : n \in 0..MaxEntries}

\* name = GetName() + (IsDirectory() ? "/" : ""), and path = filesystem_path
\* + name: the names down to the entry, and whether a "/" ends it.
LogicalPath(filesystem_path, file_info) ==
  [names |-> Append(filesystem_path, file_info.name), slash |-> file_info.dir]

\* export_path = export_folder + '/' + name, as the host resolves it.
ExportPath(export_folder, file_info) == Append(export_folder, file_info.name)

\* One invocation of ExportDirectory: the directory's children, the loop's
\* position in them, and the two path arguments.
Frame(entries, filesystem_path, export_folder) ==
  [entries |-> entries, i |-> 1, filesystem_path |-> filesystem_path,
   export_folder |-> export_folder]

\* The loop of the innermost invocation moves to the next child.
Advance(stk) == <<[stk[1] EXCEPT !.i = @ + 1]>> \o Tail(stk)

\* The existence test left out: every file is exported.
NeverSkips(h, export_path) == FALSE

\* if (File::Exists(export_path)) NOTICE_LOG(... already exists)
SkipsExisting(h, export_path) == Exists(h, export_path)

\* A failed ExportFile ends the invocation.
OnExportFileStop(stk, ok) == IF ok THEN Advance(stk) ELSE Tail(stk)

\* else if (!ExportFile(...)) ERROR_LOG(...): the loop goes on either way.
OnExportFile(stk, ok) == Advance(stk)

\* Directories are entered whatever recursive is.
DescendsAlways(rec) == TRUE

\* else if (recursive)
Descends(rec) == rec

\* if (update_progress(path)) return;
OnCancel(stk) == Tail(stk)

\* What the environment may do to the export of one file of a tree: let it
\* through, refuse the destination, or fail the read or the write.
DirEnvs ==
  {[open |-> TRUE, fail |-> NoFail], [open |-> FALSE, fail |-> NoFail],
   [open |-> TRUE, fail |-> [at |-> 0, kind |-> "read"]],
   [open |-> TRUE, fail |-> [at |-> 0, kind |-> "write"]]}

Running == stack # <<>> /\ stack[1].i <= Len(stack[1].entries)

Entry == stack[1].entries[stack[1].i]

Progress(answer) ==
  [kind |-> "progress", path |-> LogicalPath(stack[1].filesystem_path, Entry),
   answer |-> answer]

Cancelled == \E k \in 1..Len(events) : events[k].kind = "progress" /\ events[k].answer

\* The body of a top-level call: CreateFullPath, then the loop starts.
StartDirectory(r) ==
  /\ host' = CreateFullPath(host, OutDir)
  /\ stack' = <<Frame(tree, <<>>, OutDir)>>
  /\ events' = <<[kind |-> "mkdir", path |-> OutDir]>>
  /\ run' = r

\* The first call of ExportDirectory on the tree, into export_folder.
ExportDirectoryCall ==
  /\ call.op = "ExportDirectory" /\ run = 0
  /\ StartDirectory(1)
  /\ UNCHANGED <<call, last, vol, tree, recursive, firstRun>>

\* The same call once more, onto what an uncancelled first run left.
ExportDirectoryAgain ==
  /\ run = 1 /\ stack = <<>> /\ ~Cancelled
  /\ firstRun' = [host |-> host, events |-> events]
  /\ StartDirectory(2)
  /\ UNCHANGED <<call, last, vol, tree, recursive>>

\* update_progress(path) returns true: the invocation returns.  (The second
\* run of the model is one the callback never cancels.)
CancelEntry ==
  /\ Running /\ run = 1
  /\ events' = Append(events, Progress(TRUE))
  /\ stack' = OnCancel(stack)
  /\ UNCHANGED <<host, call, last, vol, tree, recursive, run, firstRun>>

\* A file whose export path exists: the notice, and the next child.
SkipExistingFile ==
  /\ Running /\ ~Entry.dir
  /\ SkipsExisting(host, ExportPath(stack[1].export_folder, Entry))
  /\ events' = events \o
       <<Progress(FALSE),
         [kind |-> "skip", path |-> ExportPath(stack[1].export_folder, Entry)]>>
  /\ stack' = Advance(stack)
  /\ UNCHANGED <<host, call, last, vol, tree, recursive, run, firstRun>>

\* A file whose export path does not exist: ExportFile, and the next child
\* whatever it returns.
ExportNewFile ==
  /\ Running /\ ~Entry.dir
  /\ ~SkipsExisting(host, ExportPath(stack[1].export_folder, Entry))
  /\ \E env \in DirEnvs :
       LET export_path == ExportPath(stack[1].export_folder, Entry)
           r == ExportFile(host, Entry, export_path, env)
       IN /\ host' = r.host
          /\ events' = events \o
               <<Progress(FALSE),
                 [kind |-> "export", path |-> export_path, offset |-> Entry.offset,
                  size |-> Entry.size, had |-> export_path \in DOMAIN host.files,
                  opened |-> r.opened, ret |-> r.ret]>>
          /\ stack' = OnExportFile(stack, r.ret)
  /\ UNCHANGED <<call, last, vol, tree, recursive, run, firstRun>>

\* A directory, recursive set: the recursive call makes the folder and
\* starts on the children; its caller resumes at the next child.
EnterDirectory ==
  /\ Running /\ Entry.dir /\ Descends(recursive)
  /\ LET export_path == ExportPath(stack[1].export_folder, Entry)
     IN /\ host' = CreateFullPath(host, export_path)
        /\ events' = events \o
             <<Progress(FALSE), [kind |-> "mkdir", path |-> export_path]>>
        /\ stack' = <<Frame(Entry.children,
                            Append(stack[1].filesystem_path, Entry.name),
                            export_path)>> \o Advance(stack)
  /\ UNCHANGED <<call, last, vol, tree, recursive, run, firstRun>>

\* A directory, recursive not set: nothing is done with it.
PassDirectory ==
  /\ Running /\ Entry.dir /\ ~Descends(recursive)
  /\ events' = Append(events, Progress(FALSE))
  /\ stack' = Advance(stack)
  /\ UNCHANGED <<host, call, last, vol, tree, recursive, run, firstRun>>

\* The loop is past the last child: the invocation returns.
LeaveDirectory ==
  /\ stack # <<>> /\ stack[1].i > Len(stack[1].entries)
  /\ stack' = Tail(stack)
  /\ UNCHANGED <<host, call, last, vol, tree, recursive, events, run, firstRun>>

DirectoryCalls == [op : {"ExportDirectory"}, export_folder : {OutDir}]

InitDirectory ==
  /\ call \in DirectoryCalls
  /\ tree \in Trees
  /\ recursive \in BOOLEAN
  /\ host = EmptyHost
  /\ last = NoCall
  /\ vol = NoVolume
  /\ stack = <<>>
  /\ events = <<>>
  /\ run = 0
  /\ firstRun = NoFirstRun

NextDirectory ==
  \/ ExportDirectoryCall
  \/ ExportDirectoryAgain
  \/ CancelEntry
  \/ SkipExistingFile
  \/ ExportNewFile
  \/ EnterDirectory
  \/ PassDirectory
  \/ LeaveDirectory

SpecDirectory == InitDirectory /\ [][NextDirectory]_vars

----------------------------------------------------------------------------
(* Claims about ExportDirectory, checked under SpecDirectory *)

\* The logical paths of the entries ExportDirectory is to report, in order:
\* the children in the tree's order, each directory's subtree right after it
\* when rec is set.
RECURSIVE VisitOrder(_, _, _)
VisitOrder(entries, filesystem_path, rec) ==
  IF entries = <<>> THEN <<>>
  ELSE LET x == Head(entries)
       IN <<LogicalPath(filesystem_path, x)>> \o
          (IF x.dir /\ rec
           THEN VisitOrder(x.children, Append(filesystem_path, x.name), rec)
           ELSE <<>>) \o
          VisitOrder(Tail(entries), filesystem_path, rec)

\* The paths the callback was invoked with, in order.
ProgressPaths(evs) ==
  LET ps == SelectSeq(evs, LAMBDA e : e.kind = "progress")
  IN [k \in 1..Len(ps) |-> ps[k].path]

\* A top-level call has returned.
Returned == run >= 1 /\ stack = <<>>

\* C2 as claimed: once the callback has returned true nothing more happens
\* in the call: no callback invocation, no folder made, no file skipped or
\* exported.
C2_CancelStopsWalk ==
  \A k \in 1..Len(events) :
    (events[k].kind = "progress" /\ events[k].answer) => k = Len(events)

\* C4: while the callback has not returned true, the entries reported are
\* the tree's entries in order, none left out after a failed export, and all
\* of them once the call returns; every file visited is skipped or
\* exported, and every export that returned true has left the whole file.
C4_FailuresDoNotStopWalk ==
  (run >= 1 /\ ~Cancelled) =>
    LET order == VisitOrder(tree, <<>>, recursive)
        seen  == ProgressPaths(events)
        handled == SelectSeq(events, LAMBDA e : e.kind \in {"skip", "export"})
        files == SelectSeq(order, LAMBDA q : ~q.slash)
    IN /\ Len(seen) <= Len(order)
       /\ seen = SubSeq(order, 1, Len(seen))
       /\ stack = <<>> => seen = order /\ Len(handled) = Len(files)
       /\ \A k \in 1..Len(events) :
            (events[k].kind = "export" /\ events[k].ret) =>
              /\ events[k].path \in DOMAIN host.files
              /\ host.files[events[k].path] =
                   RangeContent(events[k].offset, events[k].size)

\* The walk went on to a successful export after a failed one.
C4_Witness ==
  /\ Returned /\ ~Cancelled
  /\ \E j, k \in 1..Len(events) :
       /\ j < k
       /\ events[j].kind = "export" /\ ~events[j].ret
       /\ events[k].kind = "export" /\ events[k].ret /\ events[k].size > 0

\* C9: with recursive = false the host has no folder but export_folder, its
\* files are direct file children of the directory, the callback sees only
\* direct children, and no invocation is nested.
C9_NonRecursiveIsFlat ==
  ~recursive =>
    /\ host.dirs \subseteq {<<>>, OutDir}
    /\ \A p \in DOMAIN host.files :
         /\ Len(p) = 2 /\ Parent(p) = OutDir
         /\ \E i \in 1..Len(tree) : ~tree[i].dir /\ tree[i].name = p[2]
    /\ \A k \in 1..Len(events) :
         /\ events[k].kind = "progress" => Len(events[k].path.names) = 1
         /\ events[k].kind = "mkdir" => events[k].path = OutDir
         /\ events[k].kind \in {"skip", "export"} => Len(events[k].path) = 2
    /\ Len(stack) <= 1

\* A non-recursive export of a directory holding a file and a non-empty
\* subdirectory has returned.
C9_Witness ==
  /\ ~recursive /\ run = 1 /\ stack = <<>> /\ ~Cancelled
  /\ \E i \in 1..Len(tree) : tree[i].dir /\ tree[i].children # <<>>
  /\ DOMAIN host.files # {}

\* No file that was on the host has been opened for writing, and a second
\* run has left every file of the first as it was.
NeverOverwrites ==
  /\ \A k \in 1..Len(events) :
       (events[k].kind = "export" /\ events[k].opened) => ~events[k].had
  /\ run = 2 =>
       /\ \A k \in 1..Len(firstRun.events) :
            (firstRun.events[k].kind = "export" /\ firstRun.events[k].opened) =>
              ~firstRun.events[k].had
       /\ \A p \in DOMAIN firstRun.host.files :
            p \in DOMAIN host.files /\ host.files[p] = firstRun.host.files[p]
       /\ firstRun.host.dirs \subseteq host.dirs

\* In a run that was not cancelled the callback is invoked once for every
\* entry visited, in order.
ReportsEachOnce ==
  (Returned /\ ~Cancelled) =>
    /\ ProgressPaths(events) = VisitOrder(tree, <<>>, recursive)
    /\ run = 2 => ProgressPaths(firstRun.events) = VisitOrder(tree, <<>>, recursive)

\* Every file the run tried to export had its destination opened.
AllOpened(evs) ==
  \A k \in 1..Len(evs) : evs[k].kind = "export" => evs[k].opened

====
